---- MODULE Spec2Model ----
(***************************************************************************)
(* Model of the Prasang Bank page component.                               *)
(*                                                                         *)
(* Two variants of the Page component exist in the repository:             *)
(*   "client" : src/unnamed/part_000 -- search is server-side, the topic   *)
(*              filter is applied on the client (useMemo), chips are       *)
(*              merged case-insensitively;                                 *)
(*   "server" : src/app/page.tsx -- topic filter and search are both sent  *)
(*              to the store, chips are the raw topic strings.             *)
(* A JavaScript string is modelled as a sequence of one-character strings. *)
(* null / undefined is modelled as None, a present value x as Some(x).     *)
(***************************************************************************)
EXTENDS Integers, Sequences, FiniteSets, TLC

VARIABLES
    variant,      \* which Page component is mounted: "client" | "server"
    rawPrasangs,  \* useState<Prasang[]>  (named prasangs in page.tsx)
    allTopics,    \* useState: TopicChip[] (client) / string[] (server)
    selected,     \* useState<string[]>
    matchAll,     \* useState<boolean>
    q,            \* useState<string>, the search box
    loading,      \* useState<boolean>
    err,          \* useState<string | null>
    topicsFetch,  \* the one v_topics request: None while pending, Some(outcome)
    inflight,     \* record fetches not yet settled: [id, alive, req]
    initiated,    \* number of record fetches started so far (= id of the latest)
    lastOutcome,  \* None while the latest record fetch is pending, else Some(outcome)
    lastSettled   \* the record fetch that settled last: None, or Some([id, alive])

vars == <<variant, rawPrasangs, allTopics, selected, matchAll, q, loading, err,
          topicsFetch, inflight, initiated, lastOutcome, lastSettled>>

None == <<>>
Some(x) == <<x>>

\* (x || []) on a nullable array
OrEmpty(o) == IF o = None THEN <<>> ELSE o[1]

------------------------------------------------------------------------------
(* Strings *)

IsSpace(c) == c = " "

toUpperCase(c) ==
    CASE c = "a" -> "A"
      [] c = "b" -> "B"
      [] c = "d" -> "D"
      [] c = "i" -> "I"
      [] c = "l" -> "L"
      [] c = "w" -> "W"
      [] OTHER -> c

toLowerCase(c) ==
    CASE c = "A" -> "a"
      [] c = "B" -> "b"
      [] c = "D" -> "d"
      [] c = "I" -> "i"
      [] c = "L" -> "l"
      [] c = "W" -> "w"
      [] OTHER -> c

LowerStr(s) == [i \in 1..Len(s) |-> toLowerCase(s[i])]

\* String.prototype.trim
trim(s) ==
    LET keep == {i \in 1..Len(s) : ~IsSpace(s[i])}
    IN  IF keep = {} THEN <<>>
        ELSE LET lo == CHOOSE i \in keep : \A j \in keep : i <= j
                 hi == CHOOSE i \in keep : \A j \in keep : j <= i
             IN  SubSeq(s, lo, hi)

norm(s) == LowerStr(trim(s))

\* s.split("-")
RECURSIVE SplitHyphen(_)
SplitHyphen(s) ==
    LET at == {i \in 1..Len(s) : s[i] = "-"}
    IN  IF at = {} THEN <<s>>
        ELSE LET i == CHOOSE k \in at : \A j \in at : k <= j
             IN  <<SubSeq(s, 1, i - 1)>> \o SplitHyphen(SubSeq(s, i + 1, Len(s)))

\* s.split(/\s+/)
RECURSIVE SplitSpaces(_)
SplitSpaces(s) ==
    LET at == {i \in 1..Len(s) : IsSpace(s[i])}
    IN  IF at = {} THEN <<s>>
        ELSE LET i == CHOOSE k \in at : \A j \in at : k <= j
                 ends == {e \in i..Len(s) :
                             /\ \A k \in i..e : IsSpace(s[k])
                             /\ (e = Len(s) \/ ~IsSpace(s[e + 1]))}
                 e == CHOOSE k \in ends : TRUE
             IN  <<SubSeq(s, 1, i - 1)>> \o SplitSpaces(SubSeq(s, e + 1, Len(s)))

\* parts.join(sep)
RECURSIVE Join(_, _)
Join(parts, sep) ==
    IF Len(parts) = 0 THEN <<>>
    ELSE IF Len(parts) = 1 THEN parts[1]
    ELSE parts[1] \o sep \o Join(Tail(parts), sep)

\* w ? w[0].toUpperCase() + w.slice(1).toLowerCase() : w
TitleWord(w) ==
    IF Len(w) = 0 THEN w
    ELSE <<toUpperCase(w[1])>> \o LowerStr(Tail(w))

PrettyPart(part) ==
    LET ws == SplitSpaces(part)
    IN  Join([i \in 1..Len(ws) |-> TitleWord(ws[i])], <<" ">>)

prettyTopic(raw) ==
    LET ps == SplitHyphen(raw)
    IN  Join([i \in 1..Len(ps) |-> PrettyPart(ps[i])], <<"-">>)

\* Collation keys of String.prototype.localeCompare (default collation):
\* whitespace < punctuation < letters at the first level, letters ignoring
\* case; at the last level a lower-case letter sorts before its capital.
PrimaryKey(c) ==
    CASE c = " " -> 1
      [] c = "-" -> 2
      [] c \in {"a", "A"} -> 3
      [] c \in {"b", "B"} -> 4
      [] c \in {"d", "D"} -> 5
      [] c \in {"i", "I"} -> 6
      [] c \in {"l", "L"} -> 7
      [] c \in {"w", "W"} -> 8
      [] OTHER -> 9

CaseKey(c) == IF c \in {"A", "B", "D", "I", "L", "W"} THEN 1 ELSE 0

\* lexicographic comparison of two integer sequences: -1, 0 or 1
RECURSIVE LexCompare(_, _)
LexCompare(x, y) ==
    IF Len(x) = 0 THEN (IF Len(y) = 0 THEN 0 ELSE -1)
    ELSE IF Len(y) = 0 THEN 1
    ELSE IF x[1] < y[1] THEN -1
    ELSE IF x[1] > y[1] THEN 1
    ELSE LexCompare(Tail(x), Tail(y))

localeCompare(a, b) ==
    LET p == LexCompare([i \in 1..Len(a) |-> PrimaryKey(a[i])],
                        [i \in 1..Len(b) |-> PrimaryKey(b[i])])
    IN  IF p # 0 THEN p
        ELSE LexCompare([i \in 1..Len(a) |-> CaseKey(a[i])],
                        [i \in 1..Len(b) |-> CaseKey(b[i])])

------------------------------------------------------------------------------
(* Topic normalizer: uniqueTopicsCaseInsensitive *)

\* map.has(v) on the insertion-ordered entries of the Map
MapHas(map, v) == \E i \in 1..Len(map) : map[i].value = v

\* Seeded fault: the key is trimmed but not lower-cased.
MapStepCaseSensitive(map, raw) ==
    LET v == trim(raw)
    IN  IF MapHas(map, v) THEN map
        ELSE Append(map, [value |-> v, label |-> prettyTopic(raw)])

\* Seeded fault: map.set runs for every row, so the last spelling wins.
MapStepLastWins(map, raw) ==
    LET v == norm(raw)
    IN  IF MapHas(map, v)
        THEN [i \in 1..Len(map) |->
                 IF map[i].value = v THEN [map[i] EXCEPT !.label = prettyTopic(raw)]
                 ELSE map[i]]
        ELSE Append(map, [value |-> v, label |-> prettyTopic(raw)])

\* const v = norm(r.topic); if (!map.has(v)) map.set(v, prettyTopic(r.topic));
MapStep(map, raw) ==
    LET v == norm(raw)
    IN  IF MapHas(map, v) THEN map
        ELSE Append(map, [value |-> v, label |-> prettyTopic(raw)])

\* for (const r of rows) ...
RECURSIVE BuildMap(_, _)
BuildMap(rows, map) ==
    IF Len(rows) = 0 THEN map
    ELSE BuildMap(Tail(rows), MapStep(map, rows[1]))

\* one insertion of a stable sort with comparator a.label.localeCompare(b.label)
RECURSIVE InsertByLabel(_, _)
InsertByLabel(sorted, c) ==
    IF Len(sorted) = 0 THEN <<c>>
    ELSE IF localeCompare(c.label, sorted[1].label) < 0 THEN <<c>> \o sorted
    ELSE <<sorted[1]>> \o InsertByLabel(Tail(sorted), c)

RECURSIVE InsertionSort(_, _)
InsertionSort(todo, sorted) ==
    IF Len(todo) = 0 THEN sorted
    ELSE InsertionSort(Tail(todo), InsertByLabel(sorted, todo[1]))

\* Seeded fault: the entries are returned in insertion order.
Unsorted(chips) == chips

\* .sort((a, b) => a.label.localeCompare(b.label))
SortByLabel(chips) == InsertionSort(chips, <<>>)

uniqueTopicsCaseInsensitive(rows) == SortByLabel(BuildMap(rows, <<>>))

------------------------------------------------------------------------------
(* Record filter (client variant) and the tags shown on a card *)

Includes(seq, x) == \E i \in 1..Len(seq) : seq[i] = x

\* Seeded fault: the two branches of the match test are swapped.
MatchTestSwapped(want, pts, all) ==
    IF all THEN \E t \in want : Includes(pts, t)
    ELSE \A t \in want : Includes(pts, t)

\* matchAll ? want.every(t => pts.includes(t)) : want.some(t => pts.includes(t))
MatchTest(want, pts, all) ==
    IF all THEN \A t \in want : Includes(pts, t)
    ELSE \E t \in want : Includes(pts, t)

\* the callback of rawPrasangs.filter
Keeps(p, want, all) ==
    LET raw == OrEmpty(p.topics)
        pts == [i \in 1..Len(raw) |-> norm(raw[i])]
    IN  IF Len(pts) = 0 THEN FALSE
        ELSE MatchTest(want, pts, all)

FilterPrasangs(records, sel, all) ==
    IF Len(sel) = 0 THEN records
    ELSE LET want == {norm(sel[i]) : i \in 1..Len(sel)}
             Test(p) == Keeps(p, want, all)
         IN  SelectSeq(records, Test)

\* the list the grid renders
prasangs ==
    IF variant = "client" THEN FilterPrasangs(rawPrasangs, selected, matchAll)
    ELSE rawPrasangs

\* Array.from(new Set(xs)): first occurrences, in order
RECURSIVE Dedupe(_, _)
Dedupe(xs, acc) ==
    IF Len(xs) = 0 THEN acc
    ELSE Dedupe(Tail(xs), IF Includes(acc, xs[1]) THEN acc ELSE Append(acc, xs[1]))

\* the values one card has a tag for: Array.from(new Set(topics.map(norm)))
\* in part_000, the raw topics in page.tsx
CardValues(p) ==
    LET raw == OrEmpty(p.topics)
    IN  IF variant = "client"
        THEN Dedupe([i \in 1..Len(raw) |-> norm(raw[i])], <<>>)
        ELSE raw

\* the tag labels of one card, one per value
CardTags(p) ==
    IF variant = "client"
    THEN [i \in 1..Len(CardValues(p)) |-> prettyTopic(CardValues(p)[i])]
    ELSE CardValues(p)

------------------------------------------------------------------------------
(* The data source: what the two requests can be answered with *)

MaxFetches == 3   \* record fetches started in one run, the one at mount included

Variants == {"client", "server"}

\* what the user can type into the search box
Queries == {<<>>, <<"a">>, <<"a", "b">>, <<" ", "%">>}

Ok(data) == [kind |-> "ok", data |-> data, message |-> ""]
Failed(m) == [kind |-> "error", data |-> None, message |-> m]
Thrown(m) == [kind |-> "throw", data |-> None, message |-> m]

\* rows of v_topics (each row is its topic string)
RowsA == << <<" ", "A", "b">>, <<"a", "b">>, <<"b">> >>
RowsB == << <<"b">>, <<"a", "-", "b">> >>

TopicOutcomes ==
    {Ok(None), Ok(Some(RowsA)), Ok(Some(RowsB)), Failed("topics failed"), Thrown("")}

\* rows of prasangs; the text, notes and dates of a row are never read by
\* the state logic and are left out
DataA == << [id |-> 1, topics |-> Some(<< <<" ", "A", "b">>, <<"b">> >>)],
            [id |-> 2, topics |-> None] >>
DataB == << [id |-> 3, topics |-> Some(<< <<"B">> >>)] >>

RecordOutcomes ==
    {Ok(None), Ok(Some(DataA)), Ok(Some(DataB)),
     Failed("records failed"), Thrown("network down"), Thrown("")}

------------------------------------------------------------------------------
(* The Page component *)

\* s.replaceAll(c, rep)
RECURSIVE ReplaceAll(_, _, _)
ReplaceAll(s, c, rep) ==
    IF Len(s) = 0 THEN <<>>
    ELSE (IF s[1] = c THEN rep ELSE <<s[1]>>) \o ReplaceAll(Tail(s), c, rep)

escapeLike(s) == ReplaceAll(ReplaceAll(s, "%", <<"\\", "%">>), "_", <<"\\", "_">>)

\* the query the effect builds before awaiting it
BuildQuery(v, query, sel, all) ==
    [topics |-> IF v = "server" /\ Len(sel) > 0
                THEN Some([op |-> IF all THEN "contains" ELSE "overlaps", of |-> sel])
                ELSE None,
     like   |-> IF Len(trim(query)) > 0 THEN Some(escapeLike(trim(query))) ELSE None]

\* the value a chip is keyed and selected by
ChipValue(t) == IF variant = "client" THEN t.value ELSE t

\* the text on a chip
ChipLabel(t) == IF variant = "client" THEN t.label ELSE t

\* the part of the component state the two fetches write
PageState ==
    [rawPrasangs |-> rawPrasangs, allTopics |-> allTopics, err |-> err, loading |-> loading]

Commit(st) ==
    /\ rawPrasangs' = st.rawPrasangs
    /\ allTopics' = st.allTopics
    /\ err' = st.err
    /\ loading' = st.loading

\* state right after the first render's effects have run
Init ==
    /\ variant \in Variants
    /\ rawPrasangs = <<>>
    /\ allTopics = <<>>
    /\ selected = <<>>
    /\ matchAll = FALSE
    /\ q = <<>>
    /\ loading = TRUE
    /\ err = None
    /\ topicsFetch = None
    /\ inflight = {[id |-> 1, alive |-> TRUE, req |-> BuildQuery(variant, <<>>, <<>>, FALSE)]}
    /\ initiated = 1
    /\ lastOutcome = None
    /\ lastSettled = None

\* cleanup of the previous run of the record effect, then the effect itself
\* up to its await: alive = false for the old run, setLoading(true), request sent
RunRecordEffect(query, sel, all) ==
    /\ initiated < MaxFetches
    /\ inflight' = {[f EXCEPT !.alive = FALSE] : f \in inflight}
                     \cup {[id |-> initiated + 1, alive |-> TRUE,
                            req |-> BuildQuery(variant, query, sel, all)]}
    /\ initiated' = initiated + 1
    /\ loading' = TRUE
    /\ lastOutcome' = None
    /\ UNCHANGED lastSettled

\* selected and matchAll are deps of the record effect in page.tsx only
SelectionEffect(sel, all) ==
    IF variant = "server" THEN RunRecordEffect(q, sel, all)
    ELSE UNCHANGED <<inflight, initiated, loading, lastOutcome, lastSettled>>

\* onChange of the search box
ChangeQuery(nq) ==
    /\ nq # q
    /\ q' = nq
    /\ RunRecordEffect(nq, selected, matchAll)
    /\ UNCHANGED <<variant, rawPrasangs, allTopics, selected, matchAll, err, topicsFetch>>

\* onChange of the "Match all topics" checkbox
SetMatchAll ==
    /\ matchAll' = ~matchAll
    /\ SelectionEffect(selected, ~matchAll)
    /\ UNCHANGED <<variant, rawPrasangs, allTopics, selected, q, err, topicsFetch>>

\* Seeded fault: the click handler appends without looking at `active`.
ToggledAlwaysAppends(sel, v) == Append(sel, v)

\* active ? selected.filter(x => x !== t.value) : [...selected, t.value]
Toggled(sel, v) ==
    IF Includes(sel, v)
    THEN LET Other(x) == x # v IN SelectSeq(sel, Other)
    ELSE Append(sel, v)

\* onClick of the i-th chip
ToggleChip(i) ==
    /\ i \in 1..Len(allTopics)
    /\ selected' = Toggled(selected, ChipValue(allTopics[i]))
    /\ SelectionEffect(selected', matchAll)
    /\ UNCHANGED <<variant, rawPrasangs, allTopics, matchAll, q, err, topicsFetch>>

\* onClick of "Clear topics", rendered only while something is selected
ClearTopics ==
    /\ Len(selected) > 0
    /\ selected' = <<>>
    /\ SelectionEffect(<<>>, matchAll)
    /\ UNCHANGED <<variant, rawPrasangs, allTopics, matchAll, q, err, topicsFetch>>

\* what the topics effect stores on success
ChipsOf(rows) ==
    IF variant = "client" THEN uniqueTopicsCaseInsensitive(rows) ELSE rows

\* Seeded fault: the error branch of the topics effect also resets the records.
TopicsResultClearing(st, o) ==
    CASE o.kind = "error" -> [st EXCEPT !.err = Some(o.message), !.rawPrasangs = <<>>]
      [] o.kind = "ok"    -> [st EXCEPT !.allTopics = ChipsOf(OrEmpty(o.data))]
      [] OTHER            -> st

\* the continuation after the await of the topics effect. The effect has no
\* try/catch: a rejected promise leaves the state alone. Its alive flag is
\* cleared on unmount only, so it is set whenever the page is there to show.
TopicsResult(st, o) ==
    CASE o.kind = "error" -> [st EXCEPT !.err = Some(o.message)]
      [] o.kind = "ok"    -> [st EXCEPT !.allTopics = ChipsOf(OrEmpty(o.data))]
      [] OTHER            -> st

\* the v_topics request settles
TopicsSettle(o) ==
    /\ topicsFetch = None
    /\ topicsFetch' = Some(o)
    /\ Commit(TopicsResult(PageState, o))
    /\ UNCHANGED <<variant, selected, matchAll, q, inflight, initiated, lastOutcome,
                   lastSettled>>

\* e?.message || "Unknown error"
ThrownMessage(m) == IF m = "" THEN "Unknown error" ELSE m

\* Seeded fault: setLoading(false) sits at the end of the try block, not in finally.
RecordsResultNoFinally(st, o) ==
    CASE o.kind = "error" -> [st EXCEPT !.err = Some(o.message), !.loading = FALSE]
      [] o.kind = "ok"    -> [st EXCEPT !.rawPrasangs = OrEmpty(o.data), !.loading = FALSE]
      [] OTHER            -> [st EXCEPT !.err = Some(ThrownMessage(o.message))]

\* Seeded fault: a successful fetch calls setErr(null).
RecordsResultClearingErr(st, o) ==
    CASE o.kind = "error" -> [st EXCEPT !.err = Some(o.message), !.loading = FALSE]
      [] o.kind = "ok"    -> [st EXCEPT !.rawPrasangs = OrEmpty(o.data), !.err = None,
                                        !.loading = FALSE]
      [] OTHER            -> [st EXCEPT !.err = Some(ThrownMessage(o.message)),
                                        !.loading = FALSE]

\* try / catch / finally of the record effect past `if (!alive) return`
RecordsResult(st, o) ==
    LET tried == CASE o.kind = "error" -> [st EXCEPT !.err = Some(o.message)]
                   [] o.kind = "ok"    -> [st EXCEPT !.rawPrasangs = OrEmpty(o.data)]
                   [] OTHER            -> [st EXCEPT !.err = Some(ThrownMessage(o.message))]
    IN  [tried EXCEPT !.loading = FALSE]

\* Seeded fault: the `if (!alive) return` guards are missing.
SettledUnguarded(st, f, o) == RecordsResult(st, o)

\* the continuation after `await query` of one record fetch
Settled(st, f, o) == IF f.alive THEN RecordsResult(st, o) ELSE st

\* one record request settles
RecordsSettle(f, o) ==
    /\ f \in inflight
    /\ inflight' = inflight \ {f}
    /\ Commit(Settled(PageState, f, o))
    /\ lastOutcome' = IF f.id = initiated THEN Some(o) ELSE lastOutcome
    /\ lastSettled' = Some([id |-> f.id, alive |-> f.alive])
    /\ UNCHANGED <<variant, selected, matchAll, q, topicsFetch, initiated>>

Next ==
    \/ \E nq \in Queries : ChangeQuery(nq)
    \/ SetMatchAll
    \/ \E i \in 1..Len(allTopics) : ToggleChip(i)
    \/ ClearTopics
    \/ \E o \in TopicOutcomes : TopicsSettle(o)
    \/ \E f \in inflight, o \in RecordOutcomes : RecordsSettle(f, o)

Spec == Init /\ [][Next]_vars

------------------------------------------------------------------------------
(* The topic normalizer on its own: a mounted client page whose v_topics    *)
(* request is answered with any list of up to MaxRows raw spellings.        *)

MaxRows == 3

\* raw spellings: case variants, leading / trailing / inner whitespace, hyphens
RawTopics ==
    { <<"D", "i", "w", "a", "l", "i">>, <<"d", "i", "w", "a", "l", "i", " ">>,
      <<" ", "D", "I", "W", "A", "L", "I">>,
      <<"a", "b">>, <<"a", "-", "b">>, <<"a", " ", " ", "B">>,
      <<"b">>, <<"W", "-", "a">> }

RECURSIVE SeqsUpTo(_, _)
SeqsUpTo(S, n) ==
    IF n = 0 THEN {<<>>}
    ELSE LET shorter == SeqsUpTo(S, n - 1)
         IN  shorter \cup {Append(x, e) : x \in shorter, e \in S}

InitNormalize == Init /\ variant = "client"

NextNormalize ==
    \E o \in {Ok(None)} \cup {Ok(Some(rows)) : rows \in SeqsUpTo(RawTopics, MaxRows)} :
        TopicsSettle(o)

SpecNormalize == InitNormalize /\ [][NextNormalize]_vars

\* the rows the topics effect was answered with
TopicsAnswered == topicsFetch # None /\ topicsFetch[1].kind = "ok"
TopicRows == OrEmpty(topicsFetch[1].data)

\* positions of the rows whose normalized value is v
RowsOf(v) == {i \in 1..Len(TopicRows) : norm(TopicRows[i]) = v}

\* C4: the chip list held after the topics fetch has no two chips with the
\* same value and exactly one chip for each distinct norm(raw) of the rows
\* it was answered with; no rows give no chips.
ChipsAreTheDistinctValues ==
    TopicsAnswered =>
        /\ \A i, j \in 1..Len(allTopics) :
               i # j => allTopics[i].value # allTopics[j].value
        /\ \A i \in 1..Len(TopicRows) :
               Cardinality({k \in 1..Len(allTopics) :
                               allTopics[k].value = norm(TopicRows[i])}) = 1
        /\ \A k \in 1..Len(allTopics) : RowsOf(allTopics[k].value) # {}
        /\ (Len(TopicRows) = 0 => Len(allTopics) = 0)

\* rows that repeat a value in another case and with whitespace around it
ChipsMergedWitness ==
    /\ TopicsAnswered
    /\ Len(TopicRows) = 3
    /\ Len(allTopics) = 2
    /\ \E i, j \in 1..3 : /\ i # j
                          /\ TopicRows[i] # TopicRows[j]
                          /\ norm(TopicRows[i]) = norm(TopicRows[j])

\* ["Diwali", "diwali ", " DIWALI"]
DiwaliRows ==
    << <<"D", "i", "w", "a", "l", "i">>, <<"d", "i", "w", "a", "l", "i", " ">>,
       <<" ", "D", "I", "W", "A", "L", "I">> >>

\* C6: every chip's label is prettyTopic of the first row, in input order,
\* whose norm is the chip's value; "Diwali", "diwali ", " DIWALI" give the
\* one chip (value "diwali", label "Diwali").
FirstSpellingLabels ==
    TopicsAnswered =>
        /\ \A k \in 1..Len(allTopics) :
               LET at == RowsOf(allTopics[k].value)
               IN  /\ at # {}
                   /\ LET first == CHOOSE i \in at : \A j \in at : i <= j
                      IN  allTopics[k].label = prettyTopic(TopicRows[first])
        /\ (TopicRows = DiwaliRows
               => allTopics = << [value |-> <<"d", "i", "w", "a", "l", "i">>,
                                  label |-> <<"D", "i", "w", "a", "l", "i">>] >>)

\* the three spellings have been merged, and a later one would have given
\* another label
FirstSpellingWitness ==
    /\ TopicsAnswered
    /\ TopicRows = DiwaliRows
    /\ Len(allTopics) = 1
    /\ prettyTopic(TopicRows[3]) # allTopics[1].label

\* C7: the chip list is ascending by label: no chip's label compares
\* greater than the label of the chip after it.
ChipsSortedByLabel ==
    TopicsAnswered =>
        \A k \in 1..(Len(allTopics) - 1) :
            localeCompare(allTopics[k].label, allTopics[k + 1].label) <= 0

\* three chips whose order of arrival was not the order of their labels
ChipsSortedWitness ==
    /\ TopicsAnswered
    /\ Len(allTopics) = 3
    /\ allTopics # BuildMap(TopicRows, <<>>)

------------------------------------------------------------------------------
(* The record filter on its own: a client page holding any list of up to    *)
(* MaxRecords records, its chips loaded, the user working the chips, the    *)
(* "Clear topics" link and the match-mode checkbox.                         *)

MaxRecords == 3

\* the topics column of a row: null, empty, mixed case, padded, repeated
TopicLists ==
    { None, Some(<<>>), Some(<< <<"A">>, <<"b">> >>), Some(<< <<"B">> >>),
      Some(<< <<" ", "a", " ">> >>), Some(<< <<"b">>, <<"B", " ">> >>) }

RecordLists ==
    UNION { { [i \in 1..n |-> [id |-> i, topics |-> f[i]]] : f \in [1..n -> TopicLists] }
            : n \in 0..MaxRecords }

FilterRows == << <<"a">>, <<"b">> >>

InitFilter ==
    /\ variant = "client"
    /\ rawPrasangs \in RecordLists
    /\ allTopics = uniqueTopicsCaseInsensitive(FilterRows)
    /\ selected = <<>>
    /\ matchAll = FALSE
    /\ q = <<>>
    /\ loading = FALSE
    /\ err = None
    /\ topicsFetch = Some(Ok(Some(FilterRows)))
    /\ inflight = {}
    /\ initiated = 1
    /\ lastOutcome = Some(Ok(Some(rawPrasangs)))
    /\ lastSettled = Some([id |-> 1, alive |-> TRUE])

NextFilter ==
    \/ \E i \in 1..Len(allTopics) : ToggleChip(i)
    \/ ClearTopics
    \/ SetMatchAll

SpecFilter == InitFilter /\ [][NextFilter]_vars

\* the normalized topic set of a record
TopicSet(p) == {norm(OrEmpty(p.topics)[i]) : i \in 1..Len(OrEmpty(p.topics))}

\* records A{topics: ["A", "b"]}, B{topics: ["B"]}, C{topics: []}
ExampleRecords ==
    << [id |-> 1, topics |-> Some(<< <<"A">>, <<"b">> >>)],
       [id |-> 2, topics |-> Some(<< <<"B">> >>)],
       [id |-> 3, topics |-> Some(<<>>)] >>

\* C2: the displayed list is the reference filter of the records: all of
\* them when nothing is selected; otherwise, in order, the records whose
\* normalized topic set T is non-empty and contains S (match all) or meets
\* S (match any). A record without topics is never shown under a selection.
DisplayedIsReferenceFilter ==
    LET S == {selected[i] : i \in 1..Len(selected)}
        Passes(p) == /\ TopicSet(p) # {}
                     /\ IF matchAll THEN S \subseteq TopicSet(p)
                        ELSE S \cap TopicSet(p) # {}
    IN  /\ S = {} => prasangs = rawPrasangs
        /\ S # {} => prasangs = SelectSeq(rawPrasangs, Passes)
        /\ S # {} => \A i \in 1..Len(prasangs) : Len(OrEmpty(prasangs[i].topics)) > 0
        /\ (rawPrasangs = ExampleRecords /\ S = {<<"a">>, <<"b">>})
               => prasangs = IF matchAll THEN SubSeq(ExampleRecords, 1, 1)
                             ELSE SubSeq(ExampleRecords, 1, 2)

\* both chips selected in match-all mode over A, B, C: only A is shown
FilterWitness ==
    /\ rawPrasangs = ExampleRecords
    /\ Len(selected) = 2
    /\ matchAll
    /\ prasangs = SubSeq(ExampleRecords, 1, 1)

------------------------------------------------------------------------------
(* Claims about the page as a whole, under Spec *)

\* a record fetch settles in this step
RecordsSettleStep == lastSettled' # lastSettled

\* a record fetch that had been superseded settles in this step
SupersededSettleStep == RecordsSettleStep /\ lastSettled'[1].id # initiated

\* the latest record fetch settles with an error result or an exception
LatestFailsStep ==
    lastOutcome = None /\ lastOutcome' # None /\ lastOutcome'[1].kind # "ok"

\* the topics fetch settles with an error result or an exception
TopicsFailStep ==
    topicsFetch = None /\ topicsFetch' # None /\ topicsFetch'[1].kind # "ok"

\* C1 as stated: once every record fetch has settled, the records held are
\* what the last initiated fetch returned (nothing, when it failed).
RecordsAreLatestResult ==
    inflight = {} => (lastOutcome # None /\ rawPrasangs = OrEmpty(lastOutcome[1].data))

\* C1 as amended: a superseded fetch that settles writes nothing to records,
\* error or loading; once the latest fetch has settled with a result, the
\* records held are that result, whatever superseded fetches settle later;
\* a latest fetch that fails leaves the records as they were.
OnlyLatestFetchWrites ==
    /\ []((lastOutcome # None /\ lastOutcome[1].kind = "ok")
              => rawPrasangs = OrEmpty(lastOutcome[1].data))
    /\ [][/\ SupersededSettleStep => UNCHANGED <<rawPrasangs, err, loading>>
          /\ LatestFailsStep => UNCHANGED rawPrasangs]_vars

\* fetch 3 (for "ab") settled with DataB, then the superseded fetch 2 settled
LateSupersededWitness ==
    /\ initiated = 3
    /\ q = <<"a", "b">>
    /\ inflight = {}
    /\ lastOutcome = Some(Ok(Some(DataB)))
    /\ lastSettled = Some([id |-> 2, alive |-> FALSE])
    /\ rawPrasangs = DataB

\* C3: a failing topics fetch leaves records, chips and loading as they
\* were; a failing record fetch leaves the chips and the records as they
\* were; no settling record fetch touches the chips.
FailureLeavesOtherStream ==
    [][/\ TopicsFailStep => UNCHANGED <<rawPrasangs, allTopics, loading, selected, matchAll, q>>
       /\ LatestFailsStep => UNCHANGED <<allTopics, rawPrasangs, selected, matchAll, q>>
       /\ RecordsSettleStep => UNCHANGED allTopics]_vars

\* records are loaded and shown, and the topics fetch has failed
TopicsFailedWitness ==
    /\ rawPrasangs = DataA
    /\ lastOutcome = Some(Ok(Some(DataA)))
    /\ topicsFetch = Some(Failed("topics failed"))
    /\ err = Some("topics failed")

\* C5: for a raw topic that is both a row of the topics fetch and a topic of
\* a displayed record, the chip for its normalized value carries the label
\* the record's card shows for it.
ChipAndCardLabelsAgree ==
    (variant = "client" /\ TopicsAnswered) =>
        \A r \in 1..Len(TopicRows), n \in 1..Len(prasangs) :
            Includes(OrEmpty(prasangs[n].topics), TopicRows[r]) =>
                \A k \in 1..Len(allTopics), m \in 1..Len(CardValues(prasangs[n])) :
                    (/\ allTopics[k].value = norm(TopicRows[r])
                     /\ CardValues(prasangs[n])[m] = norm(TopicRows[r]))
                        => CardTags(prasangs[n])[m] = allTopics[k].label

\* C8: the selection never holds a value twice and holds only values of
\* chips of the current chip list; it changes only by "Clear topics" or by
\* a click on a chip, which appends the chip's value if it was not selected
\* and removes just that value if it was; a settling fetch leaves it alone.
SelectionFollowsChips ==
    /\ [](/\ \A i, j \in 1..Len(selected) : i # j => selected[i] # selected[j]
          /\ \A i \in 1..Len(selected) :
                 \E k \in 1..Len(allTopics) : ChipValue(allTopics[k]) = selected[i])
    /\ [][/\ selected' # selected =>
               \/ Len(selected) > 0 /\ selected' = <<>>
               \/ \E k \in 1..Len(allTopics) :
                     LET v == ChipValue(allTopics[k])
                         Other(x) == x # v
                     IN  IF Includes(selected, v)
                         THEN selected' = SelectSeq(selected, Other)
                              /\ Len(selected') = Len(selected) - 1
                         ELSE selected' = Append(selected, v)
          /\ (RecordsSettleStep \/ topicsFetch' # topicsFetch) => selected' = selected]_vars

\* two chips are selected and a refetch started after mount has settled
SelectionKeptWitness ==
    /\ Len(selected) = 2
    /\ lastSettled # None
    /\ lastSettled[1].id = 2
    /\ lastOutcome # None

\* C9: loading is true exactly while the latest record fetch is in flight:
\* starting a fetch sets it, and it is reset only in the step in which the
\* latest fetch settles, never when a superseded fetch settles.
LoadingIffLatestInFlight ==
    /\ [](loading <=> (\E f \in inflight : f.id = initiated))
    /\ [][/\ initiated' # initiated => loading'
          /\ (loading /\ ~loading') => (lastOutcome = None /\ lastOutcome' # None)
          /\ SupersededSettleStep => loading' = loading]_vars

\* a superseded fetch has just settled while the latest is still in flight
LoadingKeptWitness ==
    /\ lastSettled # None
    /\ lastSettled[1].alive = FALSE
    /\ lastOutcome = None
    /\ loading

\* C10: an error message, once set, is never reset to null; it changes only
\* to the message of a fetch that fails.
ErrorNeverCleared ==
    [][/\ err # None => err' # None
       /\ err' # err => (LatestFailsStep \/ TopicsFailStep)]_vars

\* a record fetch failed, and a later fetch replaced the records
ErrorOutlivesRefetchWitness ==
    /\ err = Some("records failed")
    /\ initiated >= 2
    /\ lastOutcome = Some(Ok(Some(DataA)))
    /\ rawPrasangs = DataA

====
